---- MODULE Spec2Model ----
(***************************************************************************)
(* State-machine model of the block canvas of src/src/components/Canvas.tsx *)
(* (draggable rectangles that snap into vertical chains).  The state is the *)
(* component's signals; there is one action per event handler and one for   *)
(* the rendering pass, which sorts the block list in place.                  *)
(***************************************************************************)
EXTENDS Integers, Sequences, FiniteSets, TLC

VARIABLES
  blocks,            \* the blocks() signal: a list of Block records, in list order
  dragState,         \* the dragState() signal: <<>> for null, <<DragState>> otherwise
  mousePos,          \* the mousePos() signal
  hoveredBlockId,    \* the hoveredBlockId() signal
  activeCollisions,  \* the activeCollisions() signal
  hung,              \* TRUE once a handler has entered a loop that never ends
  nGrabs,            \* how many pointer-downs have hit a block so far
  lastOp,            \* history: the last handler run; for a release, the branch it took
  grabSnap,          \* history: <<pointer, block list, grabbed id>> at the last grab, <<>> once forgotten
  walk               \* the chain traversal in progress, loop iteration by loop iteration

vars ==
  <<blocks, dragState, mousePos, hoveredBlockId, activeCollisions, hung,
    nGrabs, lastOp, grabSnap, walk>>

-----------------------------------------------------------------------------
(* Bounds of the model *)

\* how many drag sessions (pointer-downs that hit a block) a behaviour holds
MaxGrabs == 3

\* the pointer samples the handlers are driven with (surface-local coordinates)
PointerPositions ==
  { <<100, 50>>, <<300, 70>>, <<410, 125>>, <<400, 220>> }

-----------------------------------------------------------------------------
(* Program constants *)

undefined ==
  "undefined"

null ==
  "null"

tolerance == 20

\* the tolerance of the insertion test of handleMouseUp
insertionTolerance == 20

BlockWidth == 200

BlockHeight == 50

Block(id, x, y, color) ==
  [id |-> id, x |-> x, y |-> y, width |-> BlockWidth, height |-> BlockHeight,
   color |-> color, nextBlockId |-> undefined]

SeedBlocks ==
  << Block("1", 0, 0, "red"),
     Block("2", 200, 70, "blue"),
     Block("3", 300, 170, "green"),
     Block("4", 400, 270, "purple"),
     Block("5", 500, 370, "orange") >>

Abs(n) ==
  IF n < 0 THEN -n ELSE n

Min(a, b) ==
  IF a <= b THEN a ELSE b

-----------------------------------------------------------------------------
(* Block relationship utilities *)

\* Array.prototype.findIndex on ids: the first index holding id, 0 for -1
findIndex(bs, id) ==
  IF \E i \in 1..Len(bs) : bs[i].id = id
  THEN CHOOSE i \in 1..Len(bs) : bs[i].id = id /\ \A j \in 1..(i-1) : bs[j].id # id
  ELSE 0

\* index of the first block whose nextBlockId is blockId, 0 when there is none
aboveIndex(bs, blockId) ==
  IF \E i \in 1..Len(bs) : bs[i].nextBlockId = blockId
  THEN CHOOSE i \in 1..Len(bs) :
         bs[i].nextBlockId = blockId /\ \A j \in 1..(i-1) : bs[j].nextBlockId # blockId
  ELSE 0

\* getBlockAbove(blockId)?.id
getBlockAboveId(bs, blockId) ==
  IF aboveIndex(bs, blockId) = 0 THEN undefined ELSE bs[aboveIndex(bs, blockId)].id

\* getBlockById(id)?.nextBlockId
nextIdOf(bs, id) ==
  IF findIndex(bs, id) = 0 THEN undefined ELSE bs[findIndex(bs, id)].nextBlockId

\* the id reached from id by k steps along nextBlockId (undefined once the walk ended)
RECURSIVE IterNext(_, _, _)
IterNext(bs, id, k) ==
  IF id = undefined \/ k = 0 THEN id ELSE IterNext(bs, nextIdOf(bs, id), k - 1)

\* the id reached from id by k steps along getBlockAbove
RECURSIVE IterAbove(_, _, _)
IterAbove(bs, id, k) ==
  IF id = undefined \/ k = 0 THEN id ELSE IterAbove(bs, getBlockAboveId(bs, id), k - 1)

\* a `while (currentId)` walk along nextBlockId from id never ends: after more
\* steps than there are blocks it is still on a block, so it is on a cycle
WalkBelowLoops(bs, id) ==
  IterNext(bs, id, Len(bs) + 1) # undefined

\* a `while (currentAboveId)` walk along getBlockAbove from id never ends
WalkAboveLoops(bs, id) ==
  IterAbove(bs, id, Len(bs) + 1) # undefined

\* the ids pushed by the loop of getConnectedBlocksBelow, starting at currentId
RECURSIVE BelowFrom(_, _)
BelowFrom(bs, currentId) ==
  IF currentId = undefined THEN <<>>
  ELSE <<currentId>> \o BelowFrom(bs, nextIdOf(bs, currentId))

\* getConnectedBlocksBelow with an `if` for its `while`: one follower at most
getConnectedBlocksBelowOne(bs, blockId) ==
  IF nextIdOf(bs, blockId) = undefined THEN <<>> ELSE <<nextIdOf(bs, blockId)>>

getConnectedBlocksBelow(bs, blockId) ==
  BelowFrom(bs, nextIdOf(bs, blockId))

\* index of the block findLastConnectedBlock returns, 0 for undefined
RECURSIVE LastFrom(_, _)
LastFrom(bs, i) ==
  IF bs[i].nextBlockId = undefined \/ findIndex(bs, bs[i].nextBlockId) = 0
  THEN i
  ELSE LastFrom(bs, findIndex(bs, bs[i].nextBlockId))

findLastConnectedBlock(bs, startBlockId) ==
  IF findIndex(bs, startBlockId) = 0 THEN 0 ELSE LastFrom(bs, findIndex(bs, startBlockId))

-----------------------------------------------------------------------------
(* Collision detection *)

isPointInBlock(x, y, block) ==
  /\ x >= block.x
  /\ x <= block.x + block.width
  /\ y >= block.y
  /\ y <= block.y + block.height

\* getSnapCollision with its two vertical tests in the other order
getSnapCollisionBottomFirst(active, target) ==
  LET horizontalOverlap ==
        Min(Abs(active.x - target.x),
            Abs(active.x + active.width - (target.x + target.width))) <= tolerance
  IN  IF ~horizontalOverlap THEN null
      ELSE IF Abs(active.y - (target.y + target.height)) <= tolerance THEN "bottom"
      ELSE IF Abs(active.y + active.height - target.y) <= tolerance THEN "top"
      ELSE null

\* getSnapCollision with `<` for `<=` in its bottom test
getSnapCollisionStrictBottom(active, target) ==
  LET horizontalOverlap ==
        Min(Abs(active.x - target.x),
            Abs(active.x + active.width - (target.x + target.width))) <= tolerance
  IN  IF ~horizontalOverlap THEN null
      ELSE IF Abs(active.y + active.height - target.y) <= tolerance THEN "top"
      ELSE IF Abs(active.y - (target.y + target.height)) < tolerance THEN "bottom"
      ELSE null

getSnapCollision(active, target) ==
  LET horizontalOverlap ==
        Min(Abs(active.x - target.x),
            Abs(active.x + active.width - (target.x + target.width))) <= tolerance
  IN  IF ~horizontalOverlap THEN null
      ELSE IF Abs(active.y + active.height - target.y) <= tolerance THEN "top"
      ELSE IF Abs(active.y - (target.y + target.height)) <= tolerance THEN "bottom"
      ELSE null

\* the body of the inner loop without its reverse test
CollisionsOfPairForward(bs, i, j) ==
  IF getSnapCollision(bs[i], bs[j]) # null
  THEN << [blockId |-> bs[i].id, collidingWithId |-> bs[j].id,
           side |-> getSnapCollision(bs[i], bs[j])] >>
  ELSE <<>>

\* the records the body of the inner loop pushes for the pair (i, j)
CollisionsOfPair(bs, i, j) ==
  (IF getSnapCollision(bs[i], bs[j]) # null
   THEN << [blockId |-> bs[i].id, collidingWithId |-> bs[j].id,
            side |-> getSnapCollision(bs[i], bs[j])] >>
   ELSE <<>>)
  \o
  (IF getSnapCollision(bs[j], bs[i]) # null
   THEN << [blockId |-> bs[j].id, collidingWithId |-> bs[i].id,
            side |-> getSnapCollision(bs[j], bs[i])] >>
   ELSE <<>>)

RECURSIVE CollisionsFrom(_, _, _)
CollisionsFrom(bs, i, j) ==
  IF i > Len(bs) THEN <<>>
  ELSE IF j > Len(bs) THEN CollisionsFrom(bs, i + 1, i + 2)
  ELSE CollisionsOfPair(bs, i, j) \o CollisionsFrom(bs, i, j + 1)

detectAllCollisions(bs) ==
  CollisionsFrom(bs, 1, 2)

\* blocks().find((block) => isPointInBlock(x, y, block)): index, 0 for undefined
findBlockAt(bs, x, y) ==
  IF \E i \in 1..Len(bs) : isPointInBlock(x, y, bs[i])
  THEN CHOOSE i \in 1..Len(bs) :
         isPointInBlock(x, y, bs[i]) /\ \A j \in 1..(i-1) : ~isPointInBlock(x, y, bs[j])
  ELSE 0

-----------------------------------------------------------------------------
(* Block movement and connections.  A step of a handler yields the new block *)
(* list, or reports that it never returns.                                    *)

Done(bs) ==
  [blocks |-> bs, hung |-> FALSE]

Hang(bs) ==
  [blocks |-> bs, hung |-> TRUE]

\* moveBlock without its two walks: only the block itself is moved
moveBlockAlone(bs, blockId, newX, newY) ==
  Done([k \in 1..Len(bs) |->
          IF bs[k].id = blockId THEN [bs[k] EXCEPT !.x = newX, !.y = newY]
          ELSE bs[k]])

\* the upward loop of moveBlock: prev is what getBlockAbove reads
RECURSIVE MoveAbove(_, _, _, _, _)
MoveAbove(prev, updated, currentAboveId, newX, currentY) ==
  IF currentAboveId = undefined THEN updated
  ELSE LET index == findIndex(updated, currentAboveId) IN
       IF index = 0 THEN updated
       ELSE MoveAbove(prev,
                      [updated EXCEPT ![index].x = newX,
                                      ![index].y = currentY - updated[index].height],
                      getBlockAboveId(prev, currentAboveId),
                      newX,
                      currentY - updated[index].height)

\* the downward loop of moveBlock
RECURSIVE MoveBelow(_, _, _, _)
MoveBelow(updated, currentBelowId, newX, currentY) ==
  IF currentBelowId = undefined THEN updated
  ELSE LET index == findIndex(updated, currentBelowId) IN
       IF index = 0 THEN updated
       ELSE MoveBelow([updated EXCEPT ![index].x = newX, ![index].y = currentY],
                      updated[index].nextBlockId,
                      newX,
                      currentY + updated[index].height)

\* moveBlock whose walks do not stop at the ends of the chain: every block is
\* brought to the new x
moveBlockAllColumns(bs, blockId, newX, newY) ==
  Done([k \in 1..Len(bs) |->
          IF bs[k].id = blockId THEN [bs[k] EXCEPT !.x = newX, !.y = newY]
          ELSE [bs[k] EXCEPT !.x = newX]])

moveBlock(bs, blockId, newX, newY) ==
  LET blockIndex == findIndex(bs, blockId) IN
  IF blockIndex = 0 THEN Done(bs)
  ELSE IF WalkAboveLoops(bs, getBlockAboveId(bs, blockId))
          \/ WalkBelowLoops(bs, bs[blockIndex].nextBlockId)
       THEN Hang(bs)
       ELSE LET target == [bs EXCEPT ![blockIndex].x = newX, ![blockIndex].y = newY]
                above  == MoveAbove(bs, target, getBlockAboveId(bs, blockId), newX, newY)
            IN  Done(MoveBelow(above, above[blockIndex].nextBlockId, newX,
                               newY + above[blockIndex].height))

\* connectBlocks that spreads the bottom block's colour into the top block
connectBlocksTakesColor(bs, topBlockId, bottomBlockId) ==
  [i \in 1..Len(bs) |->
     IF bs[i].id = topBlockId
     THEN [bs[i] EXCEPT !.nextBlockId = bottomBlockId,
                        !.color = bs[findIndex(bs, bottomBlockId)].color]
     ELSE bs[i]]

connectBlocks(bs, topBlockId, bottomBlockId) ==
  [i \in 1..Len(bs) |->
     IF bs[i].id = topBlockId THEN [bs[i] EXCEPT !.nextBlockId = bottomBlockId] ELSE bs[i]]

\* disconnectBlock clearing the block's own link instead of the links to it
disconnectBlockOwnLink(bs, blockId) ==
  [k \in 1..Len(bs) |->
     IF bs[k].id = blockId THEN [bs[k] EXCEPT !.nextBlockId = undefined]
     ELSE bs[k]]

disconnectBlock(bs, blockId) ==
  [i \in 1..Len(bs) |->
     IF bs[i].nextBlockId = blockId THEN [bs[i] EXCEPT !.nextBlockId = undefined] ELSE bs[i]]

RECURSIVE StackFrom(_, _, _)
StackFrom(updated, currentId, currentY) ==
  IF currentId = undefined THEN updated
  ELSE LET blockIndex == findIndex(updated, currentId) IN
       IF blockIndex = 0 THEN updated
       ELSE StackFrom([updated EXCEPT ![blockIndex].y = currentY],
                      updated[blockIndex].nextBlockId,
                      currentY + updated[blockIndex].height)

updateStackPositions(bs, startBlockId, startY) ==
  IF WalkBelowLoops(bs, startBlockId) THEN Hang(bs)
  ELSE Done(StackFrom(bs, startBlockId, startY))

-----------------------------------------------------------------------------
(* Drag session *)

NoDrag ==
  <<>>

InStack(ds, id) ==
  \E k \in 1..Len(ds.stackIds) : ds.stackIds[k] = id

\* dragState().stackIds.map(find).filter(defined): snapshots of the stack's blocks
stackBlocks(bs, ds) ==
  LET found == SelectSeq(ds.stackIds, LAMBDA id : findIndex(bs, id) # 0)
  IN  [k \in 1..Len(found) |-> bs[findIndex(bs, found[k])]]

-----------------------------------------------------------------------------
(* Snap resolution (handleMouseUp).  A resolution is the block list left   *)
(* behind, whether the handler hung, and which branch was taken.            *)

Resolved(r, snap) ==
  [blocks |-> r.blocks, hung |-> r.hung, snap |-> snap]

\* the test the insertion loop makes for topBlock = bs[i]
insertionMatch(bs, ds, firstStackBlock, i) ==
  /\ ~InStack(ds, bs[i].id)
  /\ bs[i].nextBlockId # undefined
  /\ findIndex(bs, bs[i].nextBlockId) # 0
  /\ LET topBlock    == bs[i]
         bottomBlock == bs[findIndex(bs, bs[i].nextBlockId)]
         blockY      == firstStackBlock.y
         topBlockBottom == topBlock.y + topBlock.height
         bottomBlockTop == bottomBlock.y
     IN  /\ ~InStack(ds, bottomBlock.id)
         /\ blockY > topBlockBottom - insertionTolerance
         /\ blockY < bottomBlockTop + insertionTolerance
         /\ firstStackBlock.x + firstStackBlock.width >= topBlock.x
         /\ firstStackBlock.x <= topBlock.x + topBlock.width

\* relink that forgets the second link: topBlock -> first only
relinkTopOnly(bs, topBlock, bottomBlock, firstStackBlock, lastStackBlock) ==
  [k \in 1..Len(bs) |->
     IF bs[k].id = topBlock.id
     THEN [bs[k] EXCEPT !.nextBlockId = firstStackBlock.id]
     ELSE bs[k]]

\* the setBlocks of the insertion: topBlock -> first, last -> bottomBlock
relink(bs, topBlock, bottomBlock, firstStackBlock, lastStackBlock) ==
  [k \in 1..Len(bs) |->
     IF bs[k].id = topBlock.id
     THEN [bs[k] EXCEPT !.nextBlockId = firstStackBlock.id]
     ELSE IF bs[k].id = lastStackBlock.id
     THEN [bs[k] EXCEPT !.nextBlockId = bottomBlock.id]
     ELSE bs[k]]

\* the body run on an insertion match at topBlock = bs[i]
insertBetween(bs, firstStackBlock, lastStackBlock, i) ==
  LET topBlock    == bs[i]
      bottomBlock == bs[findIndex(bs, bs[i].nextBlockId)]
      newY        == topBlock.y + topBlock.height
      linked      == relink(bs, topBlock, bottomBlock, firstStackBlock, lastStackBlock)
      moved       == moveBlock(linked, firstStackBlock.id, topBlock.x, newY)
  IN  IF moved.hung THEN Hang(linked)
      ELSE updateStackPositions(moved.blocks, firstStackBlock.id, newY)

\* index of the first block, from i on, the insertion loop matches; 0 when none
RECURSIVE insertionLoop(_, _, _, _)
insertionLoop(bs, ds, firstStackBlock, i) ==
  IF i > Len(bs) THEN 0
  ELSE IF insertionMatch(bs, ds, firstStackBlock, i) THEN i
  ELSE insertionLoop(bs, ds, firstStackBlock, i + 1)

\* the "snapping from above" branch: the stack's last block lands on targetBlock
appendBelow(bs, lastStackBlock, targetBlock) ==
  LET newY  == targetBlock.y - lastStackBlock.height
      moved == moveBlock(bs, lastStackBlock.id, targetBlock.x, newY)
  IN  IF moved.hung THEN moved
      ELSE updateStackPositions(
             connectBlocks(moved.blocks, lastStackBlock.id, targetBlock.id),
             targetBlock.id, targetBlock.y)

\* appendAbove with the two ends of the link swapped
appendAboveSwapped(bs, firstStackBlock, lastTargetBlock) ==
  LET newY  == lastTargetBlock.y + lastTargetBlock.height
      moved == moveBlock(bs, firstStackBlock.id, lastTargetBlock.x, newY)
  IN  IF moved.hung THEN moved
      ELSE updateStackPositions(
             connectBlocks(moved.blocks, firstStackBlock.id, lastTargetBlock.id),
             firstStackBlock.id, newY)

\* the "bottom snapping" branch: the stack's first block goes under lastTargetBlock
appendAbove(bs, firstStackBlock, lastTargetBlock) ==
  LET newY  == lastTargetBlock.y + lastTargetBlock.height
      moved == moveBlock(bs, firstStackBlock.id, lastTargetBlock.x, newY)
  IN  IF moved.hung THEN moved
      ELSE updateStackPositions(
             connectBlocks(moved.blocks, lastTargetBlock.id, firstStackBlock.id),
             firstStackBlock.id, newY)

\* what one pass of the snapping loop decides for targetBlock: the test for a
\* snap from above comes first, then the one against the tail of its chain
targetSnap(bs, firstStackBlock, lastStackBlock, targetBlock) ==
  IF getSnapCollision(lastStackBlock, targetBlock) = "top" THEN "below"
  ELSE IF WalkBelowLoops(bs, targetBlock.id) THEN "hang"
  ELSE IF /\ findLastConnectedBlock(bs, targetBlock.id) # 0
          /\ getSnapCollision(firstStackBlock,
                              bs[findLastConnectedBlock(bs, targetBlock.id)]) = "bottom"
  THEN "above"
  ELSE "none"

\* the loop over targetBlock = bs[i], bs[i+1], ... of the normal snapping
RECURSIVE appendLoop(_, _, _, _, _)
appendLoop(bs, ds, firstStackBlock, lastStackBlock, i) ==
  IF i > Len(bs) THEN Resolved(Done(bs), "none")
  ELSE IF InStack(ds, bs[i].id)
  THEN appendLoop(bs, ds, firstStackBlock, lastStackBlock, i + 1)
  ELSE LET snap == targetSnap(bs, firstStackBlock, lastStackBlock, bs[i]) IN
       IF snap = "below"
       THEN Resolved(appendBelow(bs, lastStackBlock, bs[i]), "below")
       ELSE IF snap = "hang"
       THEN Resolved(Hang(bs), "none")
       ELSE IF snap = "above"
       THEN Resolved(appendAbove(bs, firstStackBlock,
                                 bs[findLastConnectedBlock(bs, bs[i].id)]), "above")
       ELSE appendLoop(bs, ds, firstStackBlock, lastStackBlock, i + 1)

\* resolveSnap with its two loops in the other order: normal snapping first
resolveSnapAppendFirst(bs, ds) ==
  LET sb    == stackBlocks(bs, ds)
      first == sb[1]
      last  == sb[Len(sb)]
      r     == appendLoop(bs, ds, first, last, 1)
      hit   == insertionLoop(bs, ds, first, 1)
  IN  IF r.snap # "none" \/ r.hung \/ hit = 0 THEN r
      ELSE Resolved(insertBetween(bs, first, last, hit), "insertion")

\* resolveSnap putting the stack back where the grab found it when nothing snaps
resolveSnapRevert(bs, ds) ==
  LET sb    == stackBlocks(bs, ds)
      hit   == insertionLoop(bs, ds, sb[1], 1)
      r     == IF hit # 0
               THEN Resolved(insertBetween(bs, sb[1], sb[Len(sb)], hit), "insertion")
               ELSE appendLoop(bs, ds, sb[1], sb[Len(sb)], 1)
      old   == grabSnap[1].blocks
  IN  IF r.snap = "none" /\ ~r.hung
      THEN Resolved(
             Done([k \in 1..Len(bs) |->
                     IF InStack(ds, bs[k].id)
                     THEN [bs[k] EXCEPT !.x = old[findIndex(old, bs[k].id)].x,
                                        !.y = old[findIndex(old, bs[k].id)].y]
                     ELSE bs[k]]),
             "none")
      ELSE r

\* handleMouseUp with a drag session ds whose stack is not empty
resolveSnap(bs, ds) ==
  LET sb    == stackBlocks(bs, ds)
      first == sb[1]
      last  == sb[Len(sb)]
      hit   == insertionLoop(bs, ds, first, 1)
  IN  IF hit # 0
      THEN Resolved(insertBetween(bs, first, last, hit), "insertion")
      ELSE appendLoop(bs, ds, first, last, 1)

-----------------------------------------------------------------------------
(* Rendering: draw() sorts the block list of the signal in place.  The      *)
(* comparator puts every stack member after every other block and answers   *)
(* "greater" for two stack members whichever way they are asked, so it is   *)
(* not a consistent comparator: the other blocks keep their order, the      *)
(* order of the stack members among themselves is the engine's choice.      *)

sortedForDraw(bs, ds) ==
  LET rest    == SelectSeq(bs, LAMBDA b : ~InStack(ds, b.id))
      dragged == SelectSeq(bs, LAMBDA b : InStack(ds, b.id))
      n       == Len(dragged)
  IN  { rest \o [k \in 1..n |-> dragged[f[k]]] :
          f \in { g \in [1..n -> 1..n] : \A a, b \in 1..n : a # b => g[a] # g[b] } }

-----------------------------------------------------------------------------
(* Initial state and event handlers *)

NoWalk ==
  [fn |-> "idle", currentId |-> undefined, currentY |-> 0, steps |-> 0]

Init ==
  /\ blocks = SeedBlocks
  /\ dragState = NoDrag
  /\ mousePos = [x |-> 0, y |-> 0]
  /\ hoveredBlockId = null
  /\ activeCollisions = <<>>
  /\ hung = FALSE
  /\ nGrabs = 0
  /\ lastOp = "init"
  /\ grabSnap = <<>>
  /\ walk = NoWalk

\* grabSnap remembers the pointer and the block list of the last grab for as
\* long as its session lasts and in the state its release leaves behind; the
\* handler that runs next without a session forgets it
sessionSnap ==
  IF dragState = NoDrag THEN <<>> ELSE grabSnap

handleMouseMove(p) ==
  /\ ~hung
  /\ mousePos' = [x |-> p[1], y |-> p[2]]
  /\ hoveredBlockId' =
       IF findBlockAt(blocks, p[1], p[2]) = 0 THEN null
       ELSE blocks[findBlockAt(blocks, p[1], p[2])].id
  /\ IF dragState # NoDrag
     THEN LET moved == moveBlock(blocks, dragState[1].blockId,
                                 p[1] - dragState[1].offset.x,
                                 p[2] - dragState[1].offset.y)
          IN  /\ blocks' = moved.blocks
              /\ hung' = moved.hung
     ELSE UNCHANGED <<blocks, hung>>
  /\ lastOp' = "move"
  /\ grabSnap' = sessionSnap
  /\ UNCHANGED <<dragState, activeCollisions, nGrabs, walk>>

\* handleMouseDown that records the collisions before it looks at what was hit
handleMouseDownMissRecords ==
  /\ ~hung
  /\ LET hit == findBlockAt(blocks, mousePos.x, mousePos.y) IN
     IF hit = 0
     THEN /\ activeCollisions' = detectAllCollisions(blocks)
          /\ lastOp' = "miss"
          /\ grabSnap' = sessionSnap
          /\ UNCHANGED <<blocks, dragState, hung, nGrabs>>
     ELSE LET clickedBlock == blocks[hit]
              cut          == disconnectBlock(blocks, clickedBlock.id)
          IN  /\ nGrabs < MaxGrabs
              /\ nGrabs' = nGrabs + 1
              /\ lastOp' = "down"
              /\ activeCollisions' = detectAllCollisions(blocks)
              /\ blocks' = cut
              /\ IF WalkBelowLoops(cut, nextIdOf(cut, clickedBlock.id))
                 THEN /\ hung' = TRUE
                      /\ grabSnap' = sessionSnap
                      /\ UNCHANGED dragState
                 ELSE /\ hung' = FALSE
                      /\ dragState' =
                           << [blockId  |-> clickedBlock.id,
                               stackIds |-> <<clickedBlock.id>>
                                            \o getConnectedBlocksBelow(cut, clickedBlock.id),
                               offset   |-> [x |-> mousePos.x - clickedBlock.x,
                                             y |-> mousePos.y - clickedBlock.y]] >>
                      /\ grabSnap' = << [pointer |-> mousePos, blocks |-> blocks,
                                          blockId |-> clickedBlock.id] >>
  /\ UNCHANGED <<mousePos, hoveredBlockId, walk>>

handleMouseDown ==
  /\ ~hung
  /\ LET hit == findBlockAt(blocks, mousePos.x, mousePos.y) IN
     IF hit = 0
     THEN /\ activeCollisions' = <<>>
          /\ lastOp' = "miss"
          /\ grabSnap' = sessionSnap
          /\ UNCHANGED <<blocks, dragState, hung, nGrabs>>
     ELSE LET clickedBlock == blocks[hit]
              cut          == disconnectBlock(blocks, clickedBlock.id)
          IN  /\ nGrabs < MaxGrabs
              /\ nGrabs' = nGrabs + 1
              /\ lastOp' = "down"
              /\ activeCollisions' = detectAllCollisions(blocks)
              /\ blocks' = cut
              /\ IF WalkBelowLoops(cut, nextIdOf(cut, clickedBlock.id))
                 THEN /\ hung' = TRUE
                      /\ grabSnap' = sessionSnap
                      /\ UNCHANGED dragState
                 ELSE /\ hung' = FALSE
                      /\ dragState' =
                           << [blockId  |-> clickedBlock.id,
                               stackIds |-> <<clickedBlock.id>>
                                            \o getConnectedBlocksBelow(cut, clickedBlock.id),
                               offset   |-> [x |-> mousePos.x - clickedBlock.x,
                                             y |-> mousePos.y - clickedBlock.y]] >>
                      /\ grabSnap' = << [pointer |-> mousePos, blocks |-> blocks,
                                          blockId |-> clickedBlock.id] >>
  /\ UNCHANGED <<mousePos, hoveredBlockId, walk>>

\* handleMouseUp without its last line: the records outlive the session
handleMouseUpKeepsRecords ==
  /\ ~hung
  /\ IF dragState = NoDrag
     THEN /\ lastOp' = "idle"
          /\ grabSnap' = sessionSnap
          /\ UNCHANGED <<blocks, dragState, activeCollisions, hung>>
     ELSE IF Len(stackBlocks(blocks, dragState[1])) = 0
     THEN /\ dragState' = NoDrag
          /\ activeCollisions' = <<>>
          /\ lastOp' = "stale"
          /\ UNCHANGED <<blocks, hung, grabSnap>>
     ELSE LET r == resolveSnap(blocks, dragState[1]) IN
          /\ blocks' = r.blocks
          /\ hung' = r.hung
          /\ lastOp' = r.snap
          /\ IF r.hung
             THEN UNCHANGED dragState
             ELSE dragState' = NoDrag
          /\ UNCHANGED <<grabSnap, activeCollisions>>
  /\ UNCHANGED <<mousePos, hoveredBlockId, nGrabs, walk>>

\* handleMouseUp that forgets the hovered block when there is no session
handleMouseUpResetsHover ==
  /\ ~hung
  /\ IF dragState = NoDrag
     THEN /\ lastOp' = "idle"
          /\ grabSnap' = sessionSnap
          /\ hoveredBlockId' = null
          /\ UNCHANGED <<blocks, dragState, activeCollisions, hung>>
     ELSE IF Len(stackBlocks(blocks, dragState[1])) = 0
     THEN /\ dragState' = NoDrag
          /\ activeCollisions' = <<>>
          /\ lastOp' = "stale"
          /\ UNCHANGED <<blocks, hung, grabSnap, hoveredBlockId>>
     ELSE LET r == resolveSnap(blocks, dragState[1]) IN
          /\ blocks' = r.blocks
          /\ hung' = r.hung
          /\ lastOp' = r.snap
          /\ IF r.hung
             THEN UNCHANGED <<dragState, activeCollisions>>
             ELSE /\ dragState' = NoDrag
                  /\ activeCollisions' = <<>>
          /\ UNCHANGED <<grabSnap, hoveredBlockId>>
  /\ UNCHANGED <<mousePos, nGrabs, walk>>

handleMouseUp ==
  /\ ~hung
  /\ IF dragState = NoDrag
     THEN /\ lastOp' = "idle"
          /\ grabSnap' = sessionSnap
          /\ UNCHANGED <<blocks, dragState, activeCollisions, hung>>
     ELSE IF Len(stackBlocks(blocks, dragState[1])) = 0
     THEN /\ dragState' = NoDrag
          /\ activeCollisions' = <<>>
          /\ lastOp' = "stale"
          /\ UNCHANGED <<blocks, hung, grabSnap>>
     ELSE LET r == resolveSnap(blocks, dragState[1]) IN
          /\ blocks' = r.blocks
          /\ hung' = r.hung
          /\ lastOp' = r.snap
          /\ IF r.hung
             THEN UNCHANGED <<dragState, activeCollisions>>
             ELSE /\ dragState' = NoDrag
                  /\ activeCollisions' = <<>>
          /\ UNCHANGED grabSnap
  /\ UNCHANGED <<mousePos, hoveredBlockId, nGrabs, walk>>

draw ==
  /\ ~hung
  /\ IF dragState = NoDrag
     THEN UNCHANGED blocks
     ELSE blocks' \in sortedForDraw(blocks, dragState[1])
  /\ UNCHANGED <<dragState, mousePos, hoveredBlockId, activeCollisions, hung,
                 nGrabs, lastOp, grabSnap, walk>>

Next ==
  \/ \E p \in PointerPositions : handleMouseMove(p)
  \/ handleMouseDown
  \/ handleMouseUp
  \/ draw

Spec ==
  Init /\ [][Next]_vars

-----------------------------------------------------------------------------
(* The chain traversals, one loop iteration per step, over any nextBlockId  *)
(* relation: links to blocks, to the block itself, to an id no block has.    *)

\* how many blocks the traversed lists hold
WalkBlocks == 3

\* how many loop iterations of one traversal the model follows
MaxWalkSteps == 5

\* an id no block carries
danglingId ==
  "9"

WalkIds ==
  { SeedBlocks[i].id : i \in 1..WalkBlocks }

\* the first WalkBlocks seed blocks under every assignment of nextBlockId
WalkBlockLists ==
  { [i \in 1..WalkBlocks |-> [SeedBlocks[i] EXCEPT !.nextBlockId = nx[i]]] :
      nx \in [1..WalkBlocks -> WalkIds \cup {undefined, danglingId}] }

InitWalk ==
  /\ blocks \in WalkBlockLists
  /\ dragState = NoDrag
  /\ mousePos = [x |-> 0, y |-> 0]
  /\ hoveredBlockId = null
  /\ activeCollisions = <<>>
  /\ hung = FALSE
  /\ nGrabs = 0
  /\ lastOp = "init"
  /\ grabSnap = <<>>
  /\ walk = NoWalk

\* getConnectedBlocksBelow(blockId) up to its loop
startBelow(blockId) ==
  /\ walk.fn = "idle"
  /\ walk' = [fn |-> "getConnectedBlocksBelow", currentId |-> nextIdOf(blocks, blockId),
              currentY |-> 0, steps |-> 0]
  /\ UNCHANGED <<blocks, dragState, mousePos, hoveredBlockId, activeCollisions, hung,
                 nGrabs, lastOp, grabSnap>>

\* one iteration of `while (currentId)`: push, then step to the next id
stepBelow ==
  /\ walk.fn = "getConnectedBlocksBelow"
  /\ walk.currentId # undefined
  /\ walk.steps < MaxWalkSteps
  /\ walk' = [walk EXCEPT !.currentId = nextIdOf(blocks, walk.currentId),
                          !.steps = walk.steps + 1]
  /\ UNCHANGED <<blocks, dragState, mousePos, hoveredBlockId, activeCollisions, hung,
                 nGrabs, lastOp, grabSnap>>

\* findLastConnectedBlock(startBlockId) up to its loop; currentId is currentBlock's id
startLast(startBlockId) ==
  /\ walk.fn = "idle"
  /\ walk' = [fn |-> "findLastConnectedBlock", currentId |-> startBlockId,
              currentY |-> 0, steps |-> 0]
  /\ UNCHANGED <<blocks, dragState, mousePos, hoveredBlockId, activeCollisions, hung,
                 nGrabs, lastOp, grabSnap>>

\* one iteration of `while (currentBlock?.nextBlockId)` that does not break
stepLast ==
  /\ walk.fn = "findLastConnectedBlock"
  /\ nextIdOf(blocks, walk.currentId) # undefined
  /\ findIndex(blocks, nextIdOf(blocks, walk.currentId)) # 0
  /\ walk.steps < MaxWalkSteps
  /\ walk' = [walk EXCEPT !.currentId = nextIdOf(blocks, walk.currentId),
                          !.steps = walk.steps + 1]
  /\ UNCHANGED <<blocks, dragState, mousePos, hoveredBlockId, activeCollisions, hung,
                 nGrabs, lastOp, grabSnap>>

\* updateStackPositions(startBlockId, startY) up to its loop
startStack(startBlockId) ==
  /\ walk.fn = "idle"
  /\ walk' = [fn |-> "updateStackPositions", currentId |-> startBlockId,
              currentY |-> 0, steps |-> 0]
  /\ UNCHANGED <<blocks, dragState, mousePos, hoveredBlockId, activeCollisions, hung,
                 nGrabs, lastOp, grabSnap>>

\* one iteration of `while (currentId)` that does not break: place the block
stepStack ==
  /\ walk.fn = "updateStackPositions"
  /\ walk.currentId # undefined
  /\ findIndex(blocks, walk.currentId) # 0
  /\ walk.steps < MaxWalkSteps
  /\ LET blockIndex == findIndex(blocks, walk.currentId) IN
     /\ blocks' = [blocks EXCEPT ![blockIndex].y = walk.currentY]
     /\ walk' = [walk EXCEPT !.currentY = walk.currentY + blocks[blockIndex].height,
                             !.currentId = blocks[blockIndex].nextBlockId,
                             !.steps = walk.steps + 1]
  /\ UNCHANGED <<dragState, mousePos, hoveredBlockId, activeCollisions, hung,
                 nGrabs, lastOp, grabSnap>>

\* the loop condition of the traversal in progress is false, or its body breaks
walkEnded ==
  \/ /\ walk.fn = "getConnectedBlocksBelow"
     /\ walk.currentId = undefined
  \/ /\ walk.fn = "findLastConnectedBlock"
     /\ \/ nextIdOf(blocks, walk.currentId) = undefined
        \/ findIndex(blocks, nextIdOf(blocks, walk.currentId)) = 0
  \/ /\ walk.fn = "updateStackPositions"
     /\ \/ walk.currentId = undefined
        \/ findIndex(blocks, walk.currentId) = 0

\* the traversal returns
finishWalk ==
  /\ walkEnded
  /\ walk' = [walk EXCEPT !.fn = "returned"]
  /\ UNCHANGED <<blocks, dragState, mousePos, hoveredBlockId, activeCollisions, hung,
                 nGrabs, lastOp, grabSnap>>

NextWalk ==
  \/ \E id \in WalkIds : startBelow(id)
  \/ stepBelow
  \/ \E id \in WalkIds : startLast(id)
  \/ stepLast
  \/ \E id \in WalkIds : startStack(id)
  \/ stepStack
  \/ finishWalk

SpecWalk ==
  InitWalk /\ [][NextWalk]_vars

-----------------------------------------------------------------------------
(* Properties *)

\* the indices of the blocks whose nextBlockId is id
predecessors(bs, id) ==
  { i \in 1..Len(bs) : bs[i].nextBlockId = id }

\* C1: in every reachable state each block is the nextBlockId of at most one
\* block: a release never links a block on top of a target that still has
\* another predecessor.
C1_AtMostOnePredecessor ==
  \A i \in 1..Len(blocks) : Cardinality(predecessors(blocks, blocks[i].id)) <= 1

\* C2: in every reachable state the nextBlockId relation has no cycle: following
\* nextBlockId from a block never returns to that block.
C2_NoCycle ==
  \A i \in 1..Len(blocks) : \A k \in 1..Len(blocks) :
     IterNext(blocks, blocks[i].id, k) # blocks[i].id

\* C3: in every reachable state each linked pair (p, c), p.nextBlockId = c.id,
\* is laid out contiguously: c.y = p.y + p.height and c.x = p.x.
C3_ChainContiguity ==
  \A i, j \in 1..Len(blocks) :
     blocks[i].nextBlockId = blocks[j].id =>
       /\ blocks[j].y = blocks[i].y + blocks[i].height
       /\ blocks[j].x = blocks[i].x

\* C4: every pointer-up taken while a drag session is active runs to completion
\* and leaves no drag session and no collision records.
C4_ReleaseEndsSession ==
  [][ (handleMouseUp /\ dragState # NoDrag) =>
        (~hung' /\ dragState' = NoDrag /\ activeCollisions' = <<>>) ]_vars

\* C5: over any nextBlockId relation, one with a cycle or a dangling id included,
\* getConnectedBlocksBelow, findLastConnectedBlock and updateStackPositions make
\* no more loop iterations than there are blocks.
C5_WalkWithinN ==
  walk.steps <= Len(blocks)

-----------------------------------------------------------------------------
(* The release of a drag session, in the words of the claims.  These are     *)
(* read in the state a pointer-up starts from, with a session active.        *)

\* the snapshots of the head and of the tail of the dragged stack
firstOfStack ==
  stackBlocks(blocks, dragState[1])[1]

lastOfStack ==
  stackBlocks(blocks, dragState[1])[Len(stackBlocks(blocks, dragState[1]))]

\* blocks[i] is outside the dragged stack
nonStack(i) ==
  ~InStack(dragState[1], blocks[i].id)

\* blocks[i] is a T of a connected pair T -> B that satisfies the insertion condition
insertionHolds(i) ==
  insertionMatch(blocks, dragState[1], firstOfStack, i)

\* blocks[i] satisfies the append-below condition: snapSide(last, target) = top
belowHolds(i) ==
  nonStack(i) /\ getSnapCollision(lastOfStack, blocks[i]) = "top"

\* blocks[i] satisfies the append-above condition: snapSide(first, tailOf(target)) = bottom;
\* a chain that loops has no tail (findLastConnectedBlock never returns on it)
aboveHolds(i) ==
  /\ nonStack(i)
  /\ ~WalkBelowLoops(blocks, blocks[i].id)
  /\ getSnapCollision(firstOfStack, blocks[findLastConnectedBlock(blocks, blocks[i].id)])
       = "bottom"

\* what the snapping loop decides when it comes to targetBlock = blocks[i]:
\* "skip" for a block of the stack, else the outcome of its tests
snapAt(i) ==
  IF nonStack(i) THEN targetSnap(blocks, firstOfStack, lastOfStack, blocks[i])
  ELSE "skip"

\* the snapping loop from blocks[i] on, target by target in list order: the
\* index of the first block it accepts, 0 when it runs to its end without
\* accepting one, -1 when it comes to a test that never returns
RECURSIVE appendScan(_)
appendScan(i) ==
  IF i > Len(blocks) THEN 0
  ELSE IF snapAt(i) \in {"below", "above"} THEN i
  ELSE IF snapAt(i) = "hang" THEN -1
  ELSE appendScan(i + 1)

\* the block with this id, in a block list
blockOf(bs, id) ==
  bs[findIndex(bs, id)]

\* a pointer-up with a drag session active
release ==
  handleMouseUp /\ dragState # NoDrag

\* C6 as claimed: with no insertion match, if any block outside the stack
\* satisfies the append-below condition the release links the stack's last block
\* onto such a block and links no block to the stack's first block.
C6_BelowBeforeAboveOverall ==
  [][ (/\ release
       /\ \A i \in 1..Len(blocks) : ~insertionHolds(i)
       /\ \E i \in 1..Len(blocks) : belowHolds(i))
      =>
      (/\ \E i \in 1..Len(blocks) :
             belowHolds(i) /\ blockOf(blocks', lastOfStack.id).nextBlockId = blocks[i].id
       /\ \A j \in 1..Len(blocks) : blocks'[j].nextBlockId # firstOfStack.id) ]_vars

\* no snap candidate exists: the insertion loop matches nowhere and the
\* snapping loop runs to its end without accepting a block
noCandidate ==
  /\ \A i \in 1..Len(blocks) : ~insertionHolds(i)
  /\ appendScan(1) = 0

\* the pointer's displacement since the grab
dx ==
  mousePos.x - grabSnap[1].pointer.x

dy ==
  mousePos.y - grabSnap[1].pointer.y

\* the block with this id is translated by (dx, dy) from where it was before
\* the grab
translated(id) ==
  /\ blockOf(blocks', id).x = blockOf(grabSnap[1].blocks, id).x + dx
  /\ blockOf(blocks', id).y = blockOf(grabSnap[1].blocks, id).y + dy

\* a release that follows a pointer-move of its session and finds no snap
\* candidate
roundTrip ==
  release /\ lastOp = "move" /\ noCandidate

\* the links as they were before the grab, all of them
linksAsBeforeGrab ==
  \A k \in 1..Len(blocks) :
    blockOf(blocks', blocks[k].id).nextBlockId
      = blockOf(grabSnap[1].blocks, blocks[k].id).nextBlockId

\* the links as they were before the grab, except those to the grabbed block,
\* which are cleared
linksAsAfterGrab ==
  \A k \in 1..Len(blocks) :
    blockOf(blocks', blocks[k].id).nextBlockId
      = IF blockOf(grabSnap[1].blocks, blocks[k].id).nextBlockId = dragState[1].blockId
        THEN undefined
        ELSE blockOf(grabSnap[1].blocks, blocks[k].id).nextBlockId

\* C7 as claimed: grabbing a block, moving the pointer by (dx, dy) and
\* releasing where no snap candidate exists leaves every block of the dragged
\* stack translated by (dx, dy) from its position before the grab, and every
\* block's nextBlockId as it was before the grab.
C7_RoundTripKeepsAllLinks ==
  [][ roundTrip
      =>
      (/\ \A k \in 1..Len(dragState[1].stackIds) : translated(dragState[1].stackIds[k])
       /\ linksAsBeforeGrab) ]_vars

\* C7 as amended: grabbing a block, moving the pointer by (dx, dy) and
\* releasing where no snap candidate exists leaves the grabbed block translated
\* by (dx, dy) from its position before the grab and every other block of the
\* stack at the x of the block before it in the stack and directly under it,
\* and every block's nextBlockId as it was before the grab except that the
\* links to the grabbed block, cleared by the grab, stay cleared.
C7_RoundTripKeepsLinksBelow ==
  [][ roundTrip
      =>
      LET ids == dragState[1].stackIds IN
      /\ translated(dragState[1].blockId)
      /\ \A k \in 1..(Len(ids) - 1) :
           /\ blockOf(blocks', ids[k + 1]).x = blockOf(blocks', ids[k]).x
           /\ blockOf(blocks', ids[k + 1]).y
                = blockOf(blocks', ids[k]).y + blockOf(blocks', ids[k]).height
      /\ linksAsAfterGrab ]_vars

\* C7 witness: a session that grabbed a block with a predecessor and a
\* successor has moved the pointer and ended in a release that snapped nowhere.
C7_Witness ==
  /\ lastOp = "none"
  /\ ~hung
  /\ dragState = NoDrag
  /\ grabSnap # <<>>
  /\ mousePos # grabSnap[1].pointer
  /\ predecessors(grabSnap[1].blocks, grabSnap[1].blockId) # {}
  /\ blockOf(blocks, grabSnap[1].blockId).nextBlockId # undefined

\* the block a pointer-down would grab: the first in list order under the pointer
clicked ==
  findBlockAt(blocks, mousePos.x, mousePos.y)

\* the session going on began with a grab in the middle of a chain
grabbedMidChain ==
  /\ dragState # NoDrag
  /\ predecessors(grabSnap[1].blocks, grabSnap[1].blockId) # {}
  /\ blockOf(grabSnap[1].blocks, grabSnap[1].blockId).nextBlockId # undefined

\* C8: for a chain A -> B -> C, a pointer-down on B clears A.nextBlockId and
\* leaves B.nextBlockId = C.id, and every pointer-move of the session it starts
\* leaves C directly under B: C.x = B.x and C.y = B.y + B.height.
C8_MidChainGrabKeepsTail ==
  [][ /\ (/\ handleMouseDown
          /\ clicked # 0
          /\ predecessors(blocks, blocks[clicked].id) # {}
          /\ blocks[clicked].nextBlockId # undefined)
         =>
         (/\ \A a \in predecessors(blocks, blocks[clicked].id) :
                blockOf(blocks', blocks[a].id).nextBlockId = undefined
          /\ blockOf(blocks', blocks[clicked].id).nextBlockId
               = blocks[clicked].nextBlockId)
      /\ (/\ \E p \in PointerPositions : handleMouseMove(p)
          /\ grabbedMidChain)
         =>
         LET B == blockOf(blocks', dragState[1].blockId)
             C == blockOf(blocks', B.nextBlockId)
         IN  /\ B.nextBlockId
                  = blockOf(grabSnap[1].blocks, grabSnap[1].blockId).nextBlockId
             /\ C.x = B.x
             /\ C.y = B.y + B.height ]_vars

\* C8 witness: in a session that began with a grab in the middle of a chain
\* the pointer has moved away from where it grabbed.
C8_Witness ==
  /\ grabbedMidChain
  /\ lastOp = "move"
  /\ ~hung
  /\ mousePos # grabSnap[1].pointer
  /\ \A a \in predecessors(grabSnap[1].blocks, grabSnap[1].blockId) :
       blockOf(blocks, grabSnap[1].blocks[a].id).nextBlockId = undefined

-----------------------------------------------------------------------------
(* Releases onto a connected pair.  The seed holds no link and the snaps     *)
(* only build gapless chains, so a pair T -> B with room between the two is  *)
(* given here as the block list a session starts from: block 1 at the        *)
(* origin linked to block 3 below it, flush or 50 lower, and block 2         *)
(* grabbed by its top-left corner, alone or with block 4 linked under it.    *)
(* The pointer then carries block 2 to one of DropPositions and releases.    *)

DropPositions ==
  { <<x, y>> : x \in {0, 20, 250}, y \in {30, 31, 50, 69, 70, 100, 119, 120} }

dropLayout(pairGap, stacked) ==
  << [Block("1", 0, 0, "red") EXCEPT !.nextBlockId = "3"],
     [Block("2", 300, 200, "blue") EXCEPT
        !.nextBlockId = IF stacked THEN "4" ELSE undefined],
     Block("3", 0, BlockHeight + pairGap, "green"),
     Block("4", 300, 200 + BlockHeight, "yellow") >>

InitDrop ==
  \E pairGap \in {0, 50}, stacked \in BOOLEAN :
    /\ blocks = dropLayout(pairGap, stacked)
    /\ dragState =
         << [blockId  |-> "2",
             stackIds |-> <<"2">> \o getConnectedBlocksBelow(blocks, "2"),
             offset   |-> [x |-> 0, y |-> 0]] >>
    /\ mousePos = [x |-> 300, y |-> 200]
    /\ hoveredBlockId = "2"
    /\ activeCollisions = detectAllCollisions(blocks)
    /\ hung = FALSE
    /\ nGrabs = 1
    /\ lastOp = "down"
    /\ grabSnap = << [pointer |-> mousePos, blocks |-> blocks, blockId |-> "2"] >>
    /\ walk = NoWalk

NextDrop ==
  \/ \E p \in DropPositions : handleMouseMove(p)
  \/ handleMouseUp

SpecDrop ==
  InitDrop /\ [][NextDrop]_vars

\* the first block in list order that is the T of a pair matching the insertion
\* condition; 0 when there is none
firstInsertion ==
  IF \E t \in 1..Len(blocks) : insertionHolds(t)
  THEN CHOOSE t \in 1..Len(blocks) :
         insertionHolds(t) /\ \A u \in 1..(t - 1) : ~insertionHolds(u)
  ELSE 0

\* C9: a release where the insertion condition holds for a connected pair
\* T -> B outside the stack, once it has returned, leaves T linked to the stack's first block and the
\* stack's last block linked to B, the first block at (T.x, T.y + T.height),
\* every block of the stack directly under the one before it and B directly
\* under the last (B.y = last.y + last.height); where B was 50 below T's bottom
\* edge and the stack is one block 50 high, B keeps its y.
C9_InsertionSplices ==
  [][ (release /\ firstInsertion # 0 /\ ~hung')
      =>
      LET ids   == dragState[1].stackIds
          T     == blocks[firstInsertion]
          B     == blockOf(blocks, T.nextBlockId)
          T2    == blockOf(blocks', T.id)
          B2    == blockOf(blocks', B.id)
          first == blockOf(blocks', firstOfStack.id)
          last  == blockOf(blocks', lastOfStack.id)
      IN  /\ T2.nextBlockId = first.id
          /\ last.nextBlockId = B.id
          /\ first.x = T2.x
          /\ first.y = T2.y + T2.height
          /\ \A k \in 1..(Len(ids) - 1) :
               /\ blockOf(blocks', ids[k + 1]).x = blockOf(blocks', ids[k]).x
               /\ blockOf(blocks', ids[k + 1]).y
                    = blockOf(blocks', ids[k]).y + blockOf(blocks', ids[k]).height
          /\ B2.y = last.y + last.height
          /\ (B.y = T.y + T.height + 50 /\ Len(ids) = 1 /\ firstOfStack.height = 50)
               => B2.y = B.y ]_vars

\* C9 witness: a release has just spliced a single block 50 high into a pair
\* whose lower block was 50 below the upper block's bottom edge.
C9_Witness ==
  /\ lastOp = "insertion"
  /\ ~hung
  /\ dragState = NoDrag
  /\ grabSnap # <<>>
  /\ blockOf(blocks, grabSnap[1].blockId).height = 50
  /\ \E t, b \in 1..Len(blocks) :
       /\ blockOf(grabSnap[1].blocks, blocks[t].id).nextBlockId = blocks[b].id
       /\ blockOf(grabSnap[1].blocks, blocks[b].id).y
            = blockOf(grabSnap[1].blocks, blocks[t].id).y + blocks[t].height + 50
       /\ blocks[t].nextBlockId = grabSnap[1].blockId
       /\ blockOf(blocks, grabSnap[1].blockId).nextBlockId = blocks[b].id

\* the first block in list order that satisfies the append-above condition; 0
\* when there is none
firstAbove ==
  IF \E t \in 1..Len(blocks) : aboveHolds(t)
  THEN CHOOSE t \in 1..Len(blocks) :
         aboveHolds(t) /\ \A u \in 1..(t - 1) : ~aboveHolds(u)
  ELSE 0

\* C10: a release where nothing of higher priority applies (no insertion match,
\* no block satisfying the append-below condition, no earlier block in list
\* order satisfying the append-above condition) and snapSide(first,
\* tailOf(target)) = bottom, once it has returned, leaves tailOf(target) linked
\* to the stack's first block, with first.x = tail.x and first.y = tail.y +
\* tail.height.
C10_AppendAbovePostcondition ==
  [][ (/\ release
       /\ firstInsertion = 0
       /\ \A i \in 1..Len(blocks) : ~belowHolds(i)
       /\ \E i \in 1..Len(blocks) : aboveHolds(i)
       /\ ~hung')
      =>
      LET tailId == blocks[findLastConnectedBlock(blocks, blocks[firstAbove].id)].id
          tail   == blockOf(blocks', tailId)
          first  == blockOf(blocks', firstOfStack.id)
      IN  /\ tail.nextBlockId = first.id
          /\ first.x = tail.x
          /\ first.y = tail.y + tail.height ]_vars

\* C10 witness: a release has just put the grabbed block under a block that
\* sits at (0, 0) and is 200 wide and 50 high: the two are linked and the
\* grabbed block is at (0, 50).
C10_Witness ==
  /\ lastOp = "above"
  /\ ~hung
  /\ dragState = NoDrag
  /\ grabSnap # <<>>
  /\ \E a \in 1..Len(blocks) :
       /\ blocks[a].x = 0 /\ blocks[a].y = 0
       /\ blocks[a].width = 200 /\ blocks[a].height = 50
       /\ blocks[a].nextBlockId = grabSnap[1].blockId
       /\ blockOf(blocks, grabSnap[1].blockId).x = 0
       /\ blockOf(blocks, grabSnap[1].blockId).y = 50

-----------------------------------------------------------------------------
(* Hit-testing and rendering order *)

\* the blocks the pointer is inside of
hitBlocks ==
  { i \in 1..Len(blocks) : isPointInBlock(mousePos.x, mousePos.y, blocks[i]) }

\* the orders a rendering pass run now would paint the blocks in
drawOrders ==
  IF dragState = NoDrag THEN {blocks} ELSE sortedForDraw(blocks, dragState[1])

\* the block painted last among those the pointer is inside of
frontMost(order) ==
  order[CHOOSE i \in 1..Len(order) :
          /\ isPointInBlock(mousePos.x, mousePos.y, order[i])
          /\ \A j \in (i + 1)..Len(order) :
               ~isPointInBlock(mousePos.x, mousePos.y, order[j])].id

\* C11: a pointer-down inside more than one block grabs the block that is
\* painted last (front-most) in the current rendering order.
C11_GrabsFrontMost ==
  [][ (handleMouseDown /\ Cardinality(hitBlocks) > 1 /\ ~hung')
      =>
      \E order \in drawOrders : dragState'[1].blockId = frontMost(order) ]_vars

\* C12: a rendering pass only reads: it leaves the block list, contents and
\* order, the drag session and the collision records as they are, with or
\* without a session.
C12_DrawOnlyReads ==
  [][ draw
      =>
      (/\ blocks' = blocks
       /\ dragState' = dragState
       /\ activeCollisions' = activeCollisions) ]_vars

\* C13: a release where no insertion, append-below or append-above candidate
\* exists changes no block's x, y or nextBlockId: the stack stays where the
\* last pointer-move left it.
C13_NoSnapLeavesBlocks ==
  [][ (release /\ noCandidate)
      =>
      \A k \in 1..Len(blocks) :
        /\ blockOf(blocks', blocks[k].id).x = blocks[k].x
        /\ blockOf(blocks', blocks[k].id).y = blocks[k].y
        /\ blockOf(blocks', blocks[k].id).nextBlockId = blocks[k].nextBlockId ]_vars

\* C13 witness: a release has just snapped nowhere and the grabbed block is
\* away from where it was before the grab.
C13_Witness ==
  /\ lastOp = "none"
  /\ ~hung
  /\ dragState = NoDrag
  /\ grabSnap # <<>>
  /\ \/ blockOf(blocks, grabSnap[1].blockId).x
          # blockOf(grabSnap[1].blocks, grabSnap[1].blockId).x
     \/ blockOf(blocks, grabSnap[1].blockId).y
          # blockOf(grabSnap[1].blocks, grabSnap[1].blockId).y

\* C14: a pointer-up without a drag session changes nothing: blocks, session,
\* hovered block and collision records are as before.
C14_PointerUpWithoutSession ==
  [][ (handleMouseUp /\ dragState = NoDrag)
      =>
      (/\ blocks' = blocks
       /\ dragState' = dragState
       /\ hoveredBlockId' = hoveredBlockId
       /\ activeCollisions' = activeCollisions) ]_vars

\* C14 witness: a pointer-up has just run without a session, over a block and
\* after earlier sessions have rearranged the blocks.
C14_Witness ==
  /\ lastOp = "idle"
  /\ dragState = NoDrag
  /\ hoveredBlockId # null
  /\ blocks # SeedBlocks

\* the grabbed block as the release found it: where the grab found it, moved
\* by the pointer's displacement
droppedBlock ==
  LET old == blockOf(grabSnap[1].blocks, grabSnap[1].blockId)
  IN  [old EXCEPT !.x = old.x + dx, !.y = old.y + dy]

\* C15: a release where some connected pair T -> B outside the stack satisfies
\* the insertion condition splices the stack into the first such pair in list
\* order, T -> first and last -> B, and changes no other link: no append-below
\* and no append-above link is made, whatever else would match.
C15_InsertionFirst ==
  [][ (release /\ firstInsertion # 0)
      =>
      LET T == blocks[firstInsertion]
          B == blockOf(blocks, T.nextBlockId)
      IN  /\ blockOf(blocks', T.id).nextBlockId = firstOfStack.id
          /\ blockOf(blocks', lastOfStack.id).nextBlockId = B.id
          /\ \A k \in 1..Len(blocks) :
               (blocks[k].id # T.id /\ blocks[k].id # lastOfStack.id)
                 => blockOf(blocks', blocks[k].id).nextBlockId = blocks[k].nextBlockId ]_vars

\* C15 witness: a release has just spliced a single block into a pair although
\* a block outside the stack satisfied the append-below condition for it.
C15_Witness ==
  /\ lastOp = "insertion"
  /\ ~hung
  /\ dragState = NoDrag
  /\ grabSnap # <<>>
  /\ blockOf(grabSnap[1].blocks, grabSnap[1].blockId).nextBlockId = undefined
  /\ \E k \in 1..Len(blocks) :
       /\ grabSnap[1].blocks[k].id # grabSnap[1].blockId
       /\ getSnapCollision(droppedBlock, grabSnap[1].blocks[k]) = "top"
  /\ \E t \in 1..Len(blocks) : blocks[t].nextBlockId = grabSnap[1].blockId

\* the first block in list order the snapping loop accepts; 0 when it accepts none
firstAppend ==
  IF appendScan(1) > 0 THEN appendScan(1) ELSE 0

\* the release goes to append-below: no insertion match, and the first block the
\* snapping loop accepts satisfies the append-below condition
resolvesBelow ==
  /\ release
  /\ firstInsertion = 0
  /\ firstAppend # 0
  /\ snapAt(firstAppend) = "below"

\* C16 as claimed: a release that resolves to append-below onto a target outside the
\* stack, once it has returned, leaves last linked to target, last.x = target.x
\* and last.y + last.height = target.y, every block of the stack directly
\* under the one before it, and target and every block below target where they
\* were before the release.
C16_AppendBelowPostcondition ==
  [][ (resolvesBelow /\ ~hung')
      =>
      LET ids    == dragState[1].stackIds
          target == blocks[firstAppend]
          last   == blockOf(blocks', lastOfStack.id)
          kept   == <<target.id>> \o getConnectedBlocksBelow(blocks, target.id)
      IN  /\ last.nextBlockId = target.id
          /\ last.x = blockOf(blocks', target.id).x
          /\ last.y + last.height = blockOf(blocks', target.id).y
          /\ \A k \in 1..(Len(ids) - 1) :
               /\ blockOf(blocks', ids[k + 1]).x = blockOf(blocks', ids[k]).x
               /\ blockOf(blocks', ids[k + 1]).y
                    = blockOf(blocks', ids[k]).y + blockOf(blocks', ids[k]).height
          /\ \A k \in 1..Len(kept) :
               /\ blockOf(blocks', kept[k]).x = blockOf(blocks, kept[k]).x
               /\ blockOf(blocks', kept[k]).y = blockOf(blocks, kept[k]).y ]_vars

\* the first block in list order that satisfies the append-below condition; 0
\* when there is none
firstBelow ==
  IF \E t \in 1..Len(blocks) : belowHolds(t)
  THEN CHOOSE t \in 1..Len(blocks) :
         belowHolds(t) /\ \A u \in 1..(t - 1) : ~belowHolds(u)
  ELSE 0

\* the target a release has picked is, among the blocks that satisfy the
\* condition it resolved through, the one that comes first in the block list
chosenFirstInList ==
  /\ lastOp' = "insertion"
       => blockOf(blocks', blocks[firstInsertion].id).nextBlockId = firstOfStack.id
  /\ lastOp' = "below"
       => blockOf(blocks', lastOfStack.id).nextBlockId = blocks[firstBelow].id
  /\ lastOp' = "above"
       => blockOf(blocks',
                  blocks[findLastConnectedBlock(blocks, blocks[firstAbove].id)].id).nextBlockId
            = firstOfStack.id

\* the block list is in the order the blocks were created in
listInCreationOrder ==
  \A i \in 1..Len(blocks) : blocks[i].id = SeedBlocks[i].id

\* C17 as claimed: at every release the target chosen is the first block in the
\* block list that satisfies the snap condition the release resolves through,
\* and the block list is in the blocks' creation order.
C17_FirstInCreationOrder ==
  [][ release => (chosenFirstInList /\ listInCreationOrder) ]_vars

\* the ids of the blocks the two walks of moveBlock reach from the block: the
\* block itself, the blocks its upward walk finds through getBlockAbove and the
\* blocks its downward walk finds through nextBlockId
connectedTo(bs, id) ==
  { bs[i].id :
      i \in { j \in 1..Len(bs) :
                \E k \in 0..Len(bs) :
                  \/ IterAbove(bs, id, k) = bs[j].id
                  \/ IterNext(bs, id, k) = bs[j].id } }

\* a pointer-move, at whatever position
pointerMove ==
  \E p \in PointerPositions : handleMouseMove(p)

\* C18: a pointer-move at p with a session active, once it has returned, leaves
\* the grabbed block at p minus the grab offset; it changes x or y only of
\* blocks connected to the grabbed block through nextBlockId links (those the
\* walks of moveBlock reach from it, upwards and downwards), changes no
\* nextBlockId and leaves the session as it was.  With no session active a
\* pointer-move changes no block.
C18_PointerMoveEffect ==
  [][ pointerMove
      =>
      IF dragState # NoDrag
      THEN LET ds == dragState[1] IN
           /\ ~hung' => /\ blockOf(blocks', ds.blockId).x = mousePos'.x - ds.offset.x
                        /\ blockOf(blocks', ds.blockId).y = mousePos'.y - ds.offset.y
           /\ \A k \in 1..Len(blocks) :
                /\ blocks'[k].id = blocks[k].id
                /\ blocks'[k].nextBlockId = blocks[k].nextBlockId
                /\ blocks[k].id \notin connectedTo(blocks, ds.blockId)
                     => (blocks'[k].x = blocks[k].x /\ blocks'[k].y = blocks[k].y)
           /\ dragState' = dragState
      ELSE blocks' = blocks ]_vars

\* C18 witness: a pointer-move in a session has just carried a grabbed block
\* with a block linked under it away from where it was grabbed, the grab
\* offset being non-zero in x and in y.
C18_Witness ==
  /\ lastOp = "move"
  /\ ~hung
  /\ dragState # NoDrag
  /\ grabSnap # <<>>
  /\ dragState[1].offset.x # 0
  /\ dragState[1].offset.y # 0
  /\ Len(dragState[1].stackIds) >= 2
  /\ blockOf(blocks, dragState[1].blockId).x = mousePos.x - dragState[1].offset.x
  /\ blockOf(blocks, dragState[1].blockId).y = mousePos.y - dragState[1].offset.y
  /\ blockOf(blocks, dragState[1].blockId).x
       # blockOf(grabSnap[1].blocks, dragState[1].blockId).x
  /\ blockOf(blocks, dragState[1].stackIds[2]).x
       # blockOf(grabSnap[1].blocks, dragState[1].stackIds[2]).x

\* C19: a pointer-down that hits block h, once it has returned, leaves a
\* session grabbing h whose stackIds is h followed by every block reachable
\* from h through nextBlockId, head to tail, and no block has nextBlockId = h.
C19_GrabTakesWholeChain ==
  [][ (handleMouseDown /\ clicked # 0 /\ ~hung')
      =>
      LET h   == blocks[clicked].id
          ids == dragState'[1].stackIds
      IN  /\ dragState' # NoDrag
          /\ dragState'[1].blockId = h
          /\ Len(ids) >= 1
          /\ \A k \in 1..Len(ids) : ids[k] = IterNext(blocks', h, k - 1)
          /\ IterNext(blocks', h, Len(ids)) = undefined
          /\ predecessors(blocks', h) = {} ]_vars

\* C19 witness: a pointer-down has just grabbed a block that had a predecessor
\* and has a block chained under it.
C19_Witness ==
  /\ lastOp = "down"
  /\ ~hung
  /\ dragState # NoDrag
  /\ grabSnap # <<>>
  /\ Len(dragState[1].stackIds) >= 2
  /\ predecessors(grabSnap[1].blocks, dragState[1].blockId) # {}
  /\ predecessors(blocks, dragState[1].blockId) = {}

-----------------------------------------------------------------------------
(* getSnapCollision on rectangles of any size.  The seed blocks are all 200  *)
(* by 50; here the block list a pointer-down finds is two rectangles, an     *)
(* active one drawn from the sets below and a target at (0, 100), 200 wide.  *)
(* The pointer-down hits one of them and records getSnapCollision of the     *)
(* pair, in both directions, in activeCollisions.                            *)

\* the heights of the two rectangles
SnapHeights ==
  {10, 30, 50}

\* the widths of the active rectangle: 179 lines the right edges up at x = 21
SnapWidths ==
  {179, 200}

\* the left edge of the active rectangle: aligned, at the tolerance, past it
SnapXs ==
  {0, 20, 21}

\* the top edge of the active rectangle
SnapYs ==
  60..175

snapRect(id, x, y, w, h) ==
  [Block(id, x, y, "red") EXCEPT !.width = w, !.height = h]

InitSnap ==
  \E x \in SnapXs, y \in SnapYs, w \in SnapWidths, h \in SnapHeights, hT \in SnapHeights :
    /\ blocks = << snapRect("1", x, y, w, h), snapRect("2", 0, 100, BlockWidth, hT) >>
    /\ dragState = NoDrag
    /\ mousePos = [x |-> 100, y |-> 105]
    /\ hoveredBlockId = blocks[findBlockAt(blocks, 100, 105)].id
    /\ activeCollisions = <<>>
    /\ hung = FALSE
    /\ nGrabs = 0
    /\ lastOp = "move"
    /\ grabSnap = <<>>
    /\ walk = NoWalk

NextSnap ==
  \/ handleMouseDown
  \/ handleMouseUp

SpecSnap ==
  InitSnap /\ [][NextSnap]_vars

\* the horizontal alignment condition of getSnapCollision
alignedWith(a, b) ==
  Min(Abs(a.x - b.x), Abs(a.x + a.width - (b.x + b.width))) <= tolerance

\* a's top edge is within tolerance of b's bottom edge
topNearBottomOf(a, b) ==
  Abs(a.y - (b.y + b.height)) <= tolerance

\* a's bottom edge is within tolerance of b's top edge
bottomNearTopOf(a, b) ==
  Abs(a.y + a.height - b.y) <= tolerance

\* the pointer-down records that getSnapCollision(blocks[i], blocks[j]) is bottom
recordsBottom(i, j) ==
  \E r \in 1..Len(activeCollisions') :
    activeCollisions'[r] = [blockId |-> blocks[i].id,
                            collidingWithId |-> blocks[j].id,
                            side |-> "bottom"]

\* C20 as claimed: getSnapCollision(A, B) is bottom if and only if
\* |A.y - (B.y + B.height)| <= tolerance and A and B are horizontally aligned,
\* whatever the positive heights of the two.
C20_BottomIffNearAndAligned ==
  [][ (handleMouseDown /\ clicked # 0)
      =>
      \A i, j \in 1..Len(blocks) :
        i # j => (recordsBottom(i, j)
                    <=> (topNearBottomOf(blocks[i], blocks[j])
                           /\ alignedWith(blocks[i], blocks[j]))) ]_vars

\* C20: getSnapCollision(A, B) is bottom if and only if
\* |A.y - (B.y + B.height)| <= tolerance, A and B are horizontally aligned and
\* the top test |A.y + A.height - B.y| <= tolerance, which comes first, does
\* not hold; a distance of exactly tolerance matches, tolerance + 1 does not.
C20_BottomIffNearAlignedNotTop ==
  [][ (handleMouseDown /\ clicked # 0)
      =>
      \A i, j \in 1..Len(blocks) :
        i # j => (recordsBottom(i, j)
                    <=> (/\ topNearBottomOf(blocks[i], blocks[j])
                         /\ alignedWith(blocks[i], blocks[j])
                         /\ ~bottomNearTopOf(blocks[i], blocks[j]))) ]_vars

\* C20 witness: a pointer-down has just recorded bottom for a rectangle whose
\* top edge is exactly tolerance below the other's bottom edge and whose left
\* edge is exactly tolerance off the other's.
C20_Witness ==
  /\ lastOp = "down"
  /\ \E r \in 1..Len(activeCollisions) :
       LET a == blockOf(blocks, activeCollisions[r].blockId)
           b == blockOf(blocks, activeCollisions[r].collidingWithId)
       IN  /\ activeCollisions[r].side = "bottom"
           /\ a.y - (b.y + b.height) = tolerance
           /\ a.x - b.x = tolerance

\* the sides the pointer-down records for getSnapCollision(blocks[i], blocks[j])
recordedSides(i, j) ==
  { activeCollisions'[r].side :
      r \in { q \in 1..Len(activeCollisions') :
                /\ activeCollisions'[q].blockId = blocks[i].id
                /\ activeCollisions'[q].collidingWithId = blocks[j].id } }

\* C21: getSnapCollision(active, target) is none whenever
\* min(|active.x - target.x|, |active.x + active.width - (target.x +
\* target.width)|) > tolerance, and is top when the pair is aligned and both
\* the top condition and the bottom condition hold.
C21_NoneUnlessAlignedTopFirst ==
  [][ (handleMouseDown /\ clicked # 0)
      =>
      \A i, j \in 1..Len(blocks) :
        i # j =>
          /\ ~alignedWith(blocks[i], blocks[j]) => recordedSides(i, j) = {}
          /\ (/\ alignedWith(blocks[i], blocks[j])
              /\ bottomNearTopOf(blocks[i], blocks[j])
              /\ topNearBottomOf(blocks[i], blocks[j]))
               => recordedSides(i, j) = {"top"} ]_vars

\* C21 witness: a pointer-down has just recorded top for an aligned pair for
\* which the top condition and the bottom condition both hold.
C21_Witness ==
  /\ lastOp = "down"
  /\ \E r \in 1..Len(activeCollisions) :
       LET a == blockOf(blocks, activeCollisions[r].blockId)
           b == blockOf(blocks, activeCollisions[r].collidingWithId)
       IN  /\ activeCollisions[r].side = "top"
           /\ alignedWith(a, b)
           /\ bottomNearTopOf(a, b)
           /\ topNearBottomOf(a, b)

\* the positions in the list the pointer-down stores of the records for
\* getSnapCollision(blocks[i], blocks[j])
recordsFor(i, j) ==
  { r \in 1..Len(activeCollisions') :
      /\ activeCollisions'[r].blockId = blocks[i].id
      /\ activeCollisions'[r].collidingWithId = blocks[j].id }

\* the ordered pairs of distinct blocks whose getSnapCollision is not none
collidingPairs ==
  { pr \in (1..Len(blocks)) \X (1..Len(blocks)) :
      pr[1] # pr[2] /\ getSnapCollision(blocks[pr[1]], blocks[pr[2]]) # null }

\* C22: a pointer-down that hits a block stores, for every two distinct blocks
\* a and b and each direction, one record carrying getSnapCollision(a, b) if
\* that is not none and no record otherwise, computed on the positions the
\* blocks have at that moment, and no record pairing a block with itself; the
\* pointer-moves of the session leave the stored list unchanged.
C22_CollisionsSnapshotAtGrab ==
  [][ /\ (handleMouseDown /\ clicked # 0)
         =>
         /\ \A i, j \in 1..Len(blocks) :
              IF i # j /\ getSnapCollision(blocks[i], blocks[j]) # null
              THEN /\ Cardinality(recordsFor(i, j)) = 1
                   /\ \A r \in recordsFor(i, j) :
                        activeCollisions'[r].side
                          = getSnapCollision(blocks[i], blocks[j])
              ELSE recordsFor(i, j) = {}
         /\ Len(activeCollisions') = Cardinality(collidingPairs)
      /\ (pointerMove /\ dragState # NoDrag)
         => activeCollisions' = activeCollisions ]_vars

\* C22 witness: in a session whose grab stored a top record and a bottom
\* record, a pointer-move has carried the grabbed block to where the records
\* of the positions now would be others than the stored ones.
C22_Witness ==
  /\ lastOp = "move"
  /\ ~hung
  /\ dragState # NoDrag
  /\ \E r, q \in 1..Len(activeCollisions) :
       activeCollisions[r].side = "top" /\ activeCollisions[q].side = "bottom"
  /\ activeCollisions # detectAllCollisions(blocks)

\* C23: a pointer-down at a position inside no block leaves no drag session,
\* empties the collision-record list and leaves x, y and nextBlockId of every
\* block unchanged.
C23_MissedPointerDown ==
  [][ (handleMouseDown /\ clicked = 0)
      =>
      /\ dragState' = NoDrag
      /\ dragState' = dragState
      /\ activeCollisions' = <<>>
      /\ Len(blocks') = Len(blocks)
      /\ \A k \in 1..Len(blocks) :
           /\ blocks'[k].id = blocks[k].id
           /\ blocks'[k].x = blocks[k].x
           /\ blocks'[k].y = blocks[k].y
           /\ blocks'[k].nextBlockId = blocks[k].nextBlockId ]_vars

\* C23 witness: a pointer-down has just missed every block while two blocks,
\* one linked onto the other, stand where a grab would record a collision.
C23_Witness ==
  /\ lastOp = "miss"
  /\ dragState = NoDrag
  /\ activeCollisions = <<>>
  /\ detectAllCollisions(blocks) # <<>>
  /\ \E k \in 1..Len(blocks) : blocks[k].nextBlockId # undefined

\* the block of the seed with this id
createdAs(id) ==
  blockOf(SeedBlocks, id)

\* C24: in every state the block list holds the ids the blocks were created
\* with, each once, and every block has the width, height and color it was
\* created with: only x, y and nextBlockId of a block differ from creation.
C24_OnlyPositionAndLinkChange ==
  /\ Len(blocks) = Len(SeedBlocks)
  /\ { blocks[k].id : k \in 1..Len(blocks) }
       = { SeedBlocks[k].id : k \in 1..Len(SeedBlocks) }
  /\ \A k \in 1..Len(blocks) :
       /\ blocks[k].width = createdAs(blocks[k].id).width
       /\ blocks[k].height = createdAs(blocks[k].id).height
       /\ blocks[k].color = createdAs(blocks[k].id).color
       /\ DOMAIN blocks[k] = DOMAIN createdAs(blocks[k].id)

\* C24 witness: after a release that linked two blocks, a block has another x,
\* another y and another nextBlockId than it was created with, and the block
\* list is in another order.
C24_Witness ==
  /\ lastOp \in {"insertion", "below", "above"}
  /\ ~hung
  /\ \E k \in 1..Len(blocks) :
       /\ blocks[k].x # createdAs(blocks[k].id).x
       /\ blocks[k].y # createdAs(blocks[k].id).y
       /\ blocks[k].nextBlockId # createdAs(blocks[k].id).nextBlockId
  /\ ~listInCreationOrder

\* C25 as claimed: while a drag session is active no block outside the
\* session's stackIds has a nextBlockId that refers to a block of stackIds.
C25_StackDetached ==
  dragState # NoDrag =>
    \A k \in 1..Len(blocks) :
      ~InStack(dragState[1], blocks[k].id)
        => ~InStack(dragState[1], blocks[k].nextBlockId)

-----------------------------------------------------------------------------
(* A session on a chain with a branch.  From the seed, dropping block 1 onto *)
(* block 2, then block 3 onto block 2 as well, then a pointer-down at        *)
(* (300, 70) gives the state this starts from: 1 -> 2 and 3 -> 2, blocks 1   *)
(* and 3 both at (200, 20), block 1 grabbed with block 2 as its stack.  The  *)
(* pointer then carries the stack to one of BranchPositions, rendering       *)
(* passes run, and the pointer is released.                                  *)

BranchPositions ==
  { <<x, y>> : x \in {300, 400, 500, 510}, y \in {70, 120, 220, 225, 320} }

branchLayout ==
  << [Block("1", 200, 20, "red") EXCEPT !.nextBlockId = "2"],
     Block("2", 200, 70, "blue"),
     [Block("3", 200, 20, "green") EXCEPT !.nextBlockId = "2"],
     Block("4", 400, 270, "purple"),
     Block("5", 500, 370, "orange") >>

InitBranch ==
  /\ blocks = branchLayout
  /\ dragState =
       << [blockId  |-> "1",
           stackIds |-> <<"1">> \o getConnectedBlocksBelow(blocks, "1"),
           offset   |-> [x |-> 100, y |-> 50]] >>
  /\ mousePos = [x |-> 300, y |-> 70]
  /\ hoveredBlockId = "1"
  /\ activeCollisions = detectAllCollisions(blocks)
  /\ hung = FALSE
  /\ nGrabs = 3
  /\ lastOp = "down"
  /\ grabSnap = << [pointer |-> mousePos, blocks |-> blocks, blockId |-> "1"] >>
  /\ walk = NoWalk

NextBranch ==
  \/ \E p \in BranchPositions : handleMouseMove(p)
  \/ draw
  \/ handleMouseUp

SpecBranch ==
  InitBranch /\ [][NextBranch]_vars

\* the block and the blocks above it: those the upward walk of moveBlock finds
\* from it through getBlockAbove
selfAndAbove(bs, id) ==
  { bs[i].id :
      i \in { j \in 1..Len(bs) :
                \E k \in 0..Len(bs) : IterAbove(bs, id, k) = bs[j].id } }

\* the block with this id is where it was before the step
staysPut(id) ==
  /\ blockOf(blocks', id).x = blockOf(blocks, id).x
  /\ blockOf(blocks', id).y = blockOf(blocks, id).y

\* C26 as claimed: a release that resolves to append-below or append-above
\* changes x and y of no block outside the dragged stack; a release that
\* resolves to an insertion between T and B leaves T and every block above T
\* where they were and, outside the stack, moves only B and blocks below B.
C26_ReleaseMovesOnlyStack ==
  [][ (release /\ ~hung')
      =>
      /\ lastOp' \in {"below", "above"}
           => \A k \in 1..Len(blocks) : nonStack(k) => staysPut(blocks[k].id)
      /\ lastOp' = "insertion"
           => LET T == blocks[firstInsertion]
                  B == T.nextBlockId
              IN  /\ \A id \in selfAndAbove(blocks, T.id) : staysPut(id)
                  /\ \A k \in 1..Len(blocks) :
                       (nonStack(k) /\ ~staysPut(blocks[k].id))
                         => \/ blocks[k].id = B
                            \/ \E q \in 1..Len(getConnectedBlocksBelow(blocks, B)) :
                                 getConnectedBlocksBelow(blocks, B)[q] = blocks[k].id ]_vars

\* C27: in every state with no drag session active the collision-record list
\* is empty.
C27_NoRecordsWithoutSession ==
  dragState = NoDrag => activeCollisions = <<>>

\* C27 witness: a release has just ended a session whose grab had stored
\* records, and the list is empty.
C27_Witness ==
  /\ lastOp \in {"none", "insertion", "below", "above"}
  /\ ~hung
  /\ dragState = NoDrag
  /\ activeCollisions = <<>>
  /\ grabSnap # <<>>
  /\ detectAllCollisions(grabSnap[1].blocks) # <<>>

=============================================================================
